---- MODULE Spec2Model ----
(***************************************************************************)
(* State-machine model of the evdev calibrator (src/calibrator/Evdev.cpp): *)
(* the session life cycle (constructor, detect_axys, apply, finish_data,   *)
(* destructor), the device lookup xinput_find_device_info and the property *)
(* write xinput_do_set_int_prop.                                           *)
(*                                                                         *)
(* Every operation of the class is one action.  What an operation did, in  *)
(* program order, is kept in call.trace (the X requests it issued, what it *)
(* printed), so that ordering inside one operation can be stated as a      *)
(* state predicate.                                                        *)
(***************************************************************************)
EXTENDS Integers, Sequences, FiniteSets, TLC

\* ------------------------------------------------------------------ bounds
\* calibration values stored on the device are drawn from 0..MaxVal
MaxVal == 1
\* device identity strings have at most MaxNameLen characters
MaxNameLen == 2
\* XListInputDevices returns at most MaxDevices devices
MaxDevices == 2

VARIABLES
    haveXiProp,   \* the build: TRUE iff HAVE_XI_PROP is defined
    pc,           \* "new", "open", "failed" (constructor threw), "closed"
    display,      \* the X connection: "none", "open", "closed"
    dev,          \* the XDevice handle: "none", "open", "closed"
    output_type,  \* Calibrator::output_type (constructor argument)
    old_axys,     \* Calibrator::old_axys
    orig_axys,    \* Calibrator::orig_axys
    detected,     \* TRUE once detect_axys has run in this session
    props,        \* the device's properties as the X server holds them
    call          \* the last operation: its inputs, result and trace

vars == <<haveXiProp, pc, display, dev, output_type, old_axys, orig_axys,
          detected, props, call>>

\* longest value sequence handed to xinput_do_set_int_prop on its own
MaxArgc == 2

\* ------------------------------------------------------------- data model
Vals == 0..MaxVal

Axys(xmin, xmax, ymin, ymax, swap) ==
    [x |-> [min |-> xmin, max |-> xmax],
     y |-> [min |-> ymin, max |-> ymax],
     swap_xy |-> swap]

\* orig_axys before detect_axys has assigned it
Unset == "unset"

\* axys0 handed to the constructor
DefaultAxys == {Axys(0, 1, 0, 1, 0), Axys(1, 0, 1, 1, 1)}

\* axys0 of the sessions of the life-cycle specification
SessionAxys == {Axys(1, 0, 1, 1, 1)}

\* new_axys handed to apply / finish_data
Targets == {Axys(1, 0, 0, 1, 0), Axys(0, 1, 1, 1, 1)}

OutputTypes == {"OUTYPE_AUTO", "OUTYPE_XORGCONFD", "OUTYPE_HAL",
                "OUTYPE_XINPUT", "OUTYPE_OTHER"}

\* One device property as the server holds it.  readable: XGetDeviceProperty
\* on it returns Success.  An absent property reads as type None, format 0,
\* no items.
Prop(readable, type, format, items) ==
    [readable |-> readable, type |-> type, format |-> format, items |-> items]

Unreadable == Prop(FALSE, "NONE", 0, <<>>)
Absent == Prop(TRUE, "NONE", 0, <<>>)

CalProps ==
    {Unreadable, Absent,
     Prop(TRUE, "INTEGER", 32, <<>>),
     Prop(TRUE, "INTEGER", 8, <<>>),
     Prop(TRUE, "INTEGER", 32, <<1>>),
     Prop(TRUE, "CARDINAL", 32, <<1, 0, 1, 0>>)}
    \cup {Prop(TRUE, "INTEGER", 32, <<a, b, c, d>>) : a, b, c, d \in Vals}

SwapProps ==
    {Unreadable, Prop(TRUE, "INTEGER", 32, <<1>>),
     Prop(TRUE, "INTEGER", 8, <<0>>), Prop(TRUE, "INTEGER", 8, <<1>>)}

InvProps ==
    {Unreadable, Prop(TRUE, "INTEGER", 8, <<1>>)}
    \cup {Prop(TRUE, "INTEGER", 8, <<a, b>>) : a, b \in 0..1}
    \cup {Prop(TRUE, "INTEGER", 8, <<2, 0>>)}

PropStates ==
    {[cal |-> c, swap |-> s, inv |-> i] :
        c \in CalProps, s \in SwapProps, i \in InvProps}

\* the device's properties before the program has looked at any device
NoProps == [cal |-> Absent, swap |-> Absent, inv |-> Absent]

\* property names of the source
PropOf(name) ==
    CASE name = "Evdev Axis Calibration" -> "cal"
      [] name = "Evdev Axes Swap" -> "swap"
      [] name = "Evdev Axis Inversion" -> "inv"

\* one entry of call.trace
Ev(ev) == [ev |-> ev, prop |-> "", format |-> 0, vals |-> <<>>, ok |-> TRUE]

\* ------------------------------------------------------ strings and atoi
Chars == {"1", "a"}

isdigit(c) == c \in {"0", "1", "2", "3", "4", "5", "6", "7", "8", "9"}

DigitVal(c) ==
    CASE c = "0" -> 0 [] c = "1" -> 1 [] c = "2" -> 2 [] c = "3" -> 3
      [] c = "4" -> 4 [] c = "5" -> 5 [] c = "6" -> 6 [] c = "7" -> 7
      [] c = "8" -> 8 [] c = "9" -> 9

\* atoi on a string of digits
RECURSIVE atoi(_)
atoi(s) ==
    IF s = <<>> THEN 0
    ELSE 10 * atoi(SubSeq(s, 1, Len(s) - 1)) + DigitVal(s[Len(s)])

\* the loop of lines 348-353: every character is a digit
AllDigits(name) == \A i \in 1..Len(name) : isdigit(name[i])

Names == UNION {[1..n -> Chars] : n \in 0..MaxNameLen}

\* ------------------------------------------------ xinput_find_device_info
DevNames == {<<"a">>, <<"1">>, <<"1", "a">>}
DevIds == {0, 1, 11}

\* one XDeviceInfo; extended: use >= IsXExtensionDevice
Devices == [id : DevIds, name : DevNames, extended : BOOLEAN]

\* the lists XListInputDevices can return: device ids are unique
DeviceLists ==
    {l \in UNION {[1..n -> Devices] : n \in 0..MaxDevices} :
        \A i, j \in 1..Len(l) : i # j => l[i].id # l[j].id}

\* DeviceMatches with a digit string also compared with the device names
DeviceMatchesByNameToo(d, name, only_extended, is_id, id) ==
    /\ (~only_extended \/ d.extended)
    /\ \/ d.name = name
       \/ (is_id /\ d.id = id)

\* the condition of lines 362-364
DeviceMatches(d, name, only_extended, is_id, id) ==
    /\ (~only_extended \/ d.extended)
    /\ \/ (~is_id /\ d.name = name)
       \/ (is_id /\ d.id = id)

\* the loop of lines 361-375; found = 0 is NULL, else the index in devices
RECURSIVE FindLoop(_, _, _, _, _, _, _)
FindLoop(devices, name, only_extended, is_id, id, loop, found) ==
    IF loop > Len(devices)
    THEN [found |-> found, warned |-> FALSE]
    ELSE IF DeviceMatches(devices[loop], name, only_extended, is_id, id)
         THEN IF found # 0
              THEN [found |-> 0, warned |-> TRUE]
              ELSE FindLoop(devices, name, only_extended, is_id, id,
                            loop + 1, loop)
         ELSE FindLoop(devices, name, only_extended, is_id, id,
                       loop + 1, found)

xinput_find_device_info(devices, name, only_extended) ==
    LET is_id == AllDigits(name)
        id == IF is_id THEN atoi(name) ELSE -1
    IN  FindLoop(devices, name, only_extended, is_id, id, 1, 0)

\* how many devices of the list the lookup condition selects
NumMatches(devices, name, only_extended) ==
    Cardinality({i \in 1..Len(devices) :
        DeviceMatches(devices[i], name, only_extended, AllDigits(name),
                      IF AllDigits(name) THEN atoi(name) ELSE -1)})

\* the lookup of line 60 (only_extended = False) on every identity string and
\* device list, reduced to what the constructor uses of it
FindCases ==
    {LET r == xinput_find_device_info(l, n, FALSE)
     IN  [is_id |-> AllDigits(n),
          nmatch |-> NumMatches(l, n, FALSE),
          found |-> r.found # 0,
          warned |-> r.warned,
          id |-> IF r.found # 0 THEN l[r.found].id ELSE -1] :
        n \in Names, l \in DeviceLists}

\* ------------------------------------------------- xinput_do_set_int_prop
\* sizeof(long) of the LP64 build
SizeofLong == 8

\* the zeroed buffer of calloc(argc, sizeof(long)), as bytes
Calloc(argc) == [b \in 0..(argc * SizeofLong - 1) |-> 0]

\* data.c[i] = v
StoreChar(buf, i, v) == [buf EXCEPT ![i] = v % 256]

\* data.s[i] = v, little-endian
StoreShort(buf, i, v) ==
    [buf EXCEPT ![2 * i] = v % 256, ![2 * i + 1] = (v \div 256) % 256]

\* a byte of the sign extension of the int v to a long
SignByte(v) == IF v < 0 THEN 255 ELSE 0

\* data.l[i] = v, little-endian
StoreLong(buf, i, v) ==
    LET o == SizeofLong * i
    IN  [buf EXCEPT ![o] = v % 256,
                    ![o + 1] = (v \div 256) % 256,
                    ![o + 2] = (v \div 65536) % 256,
                    ![o + 3] = (v \div 16777216) % 256,
                    ![o + 4] = SignByte(v), ![o + 5] = SignByte(v),
                    ![o + 6] = SignByte(v), ![o + 7] = SignByte(v)]

\* one iteration of the switch of lines 434-447: case 8 falls through to 16
StoreElem(buf, format, i, v) ==
    CASE format = 8 -> StoreShort(StoreChar(buf, i, v), i, v)
      [] format = 16 -> StoreShort(buf, i, v)
      [] format = 32 -> StoreLong(buf, i, v)

\* the loop of lines 433-448 from element i (0-based) on
RECURSIVE StoreAll(_, _, _, _)
StoreAll(buf, format, argv, i) ==
    IF i >= Len(argv) THEN buf
    ELSE StoreAll(StoreElem(buf, format, i, argv[i + 1]), format, argv, i + 1)

\* the argc items XChangeDeviceProperty takes from the buffer at this format
\* (format 32 items are longs of which the low 32 bits go on the wire)
ItemAt(buf, format, k) ==
    CASE format = 8 -> buf[k - 1]
      [] format = 16 -> buf[2 * (k - 1)] + 256 * buf[2 * (k - 1) + 1]
      [] format = 32 ->
            buf[SizeofLong * (k - 1)]
            + 256 * buf[SizeofLong * (k - 1) + 1]
            + 65536 * buf[SizeofLong * (k - 1) + 2]
            + 16777216 * buf[SizeofLong * (k - 1) + 3]

RECURSIVE ItemsOf(_, _, _)
ItemsOf(buf, format, argc) ==
    IF argc = 0 THEN <<>>
    ELSE Append(ItemsOf(buf, format, argc - 1), ItemAt(buf, format, argc))

\* lines 431-448: the buffer after the loop has stored argv at this format
Buffer(format, argv) == StoreAll(Calloc(Len(argv)), format, argv, 0)

\* lines 431-451: the buffer, and the items the server receives from it
Encode(format, argv) ==
    LET data == Buffer(format, argv)
    IN  [data |-> data, items |-> ItemsOf(data, format, Len(argv))]

\* Encode tabulated once on the arguments the calibrator itself writes
CalibratorWrites ==
    {<<8, <<a>>>> : a \in 0..1} \cup {<<8, <<0, 0>>>>}
    \cup {<<32, <<a, b, c, d>>>> : a, b, c, d \in Vals}

EncodeTable ==
    [w \in CalibratorWrites |-> Encode(w[1], w[2])]
    @@ [w \in {} |-> [data |-> <<>>, items |-> <<>>]]

Encoded(format, argv) ==
    IF <<format, argv>> \in DOMAIN EncodeTable
    THEN EncodeTable[<<format, argv>>]
    ELSE Encode(format, argv)

\* xinput_parse_atom on a property name: the names used are not all-digit, so
\* the atom is what XInternAtom returns, None when it fails
xinput_parse_atom(name, internOk) == IF internOk THEN name ELSE "None"

SetEv(name, format, argv, ret) ==
    [ev |-> "set_int_prop", prop |-> PropOf(name), format |-> format,
     vals |-> argv, ok |-> ret]

SetFailed(P, name, format, argv) ==
    [ret |-> FALSE, props |-> P, data |-> <<>>,
     trace |-> <<SetEv(name, format, argv, FALSE)>>]

\* xinput_do_set_int_prop taking 32 for the format 0 instead of probing
SetIntPropAuto32(P, xi, name, format, argv, internOk) ==
    LET prop == xinput_parse_atom(name, internOk)
        p == PropOf(name)
        fmt == IF format = 0 THEN 32 ELSE format
        items == Encoded(fmt, argv).items
    IN  IF ~xi THEN SetFailed(P, name, format, argv)
        ELSE IF Len(argv) < 1 THEN SetFailed(P, name, format, argv)
        ELSE IF prop = "None" THEN SetFailed(P, name, format, argv)
        ELSE IF fmt \notin {8, 16, 32} THEN SetFailed(P, name, format, argv)
        ELSE [ret |-> TRUE,
              props |-> [P EXCEPT ![p] = Prop(@.readable, "INTEGER", fmt, items)],
              data |-> Encoded(fmt, argv).data,
              trace |-> <<SetEv(name, format, argv, TRUE),
                          [ev |-> "XChangeDeviceProperty", prop |-> p,
                           format |-> fmt, vals |-> items, ok |-> TRUE]>>]

\* xinput_do_set_int_prop(name, display, format, argc, argv) on device
\* properties P in a build with (xi) or without HAVE_XI_PROP; internOk: the
\* atom of name resolves.  Returns the value returned, the properties after,
\* the requests made and, when the loop has run, the buffer it filled.
xinput_do_set_int_prop(P, xi, name, format, argv, internOk) ==
    LET prop == xinput_parse_atom(name, internOk)
        p == PropOf(name)
        fmt == IF format = 0 THEN P[p].format ELSE format
        items == Encoded(fmt, argv).items
    IN  IF ~xi THEN SetFailed(P, name, format, argv)
        ELSE IF Len(argv) < 1 THEN SetFailed(P, name, format, argv)
        ELSE IF prop = "None" THEN SetFailed(P, name, format, argv)
        ELSE IF format = 0 /\ ~P[p].readable
             THEN SetFailed(P, name, format, argv)
        ELSE IF fmt \notin {8, 16, 32} THEN SetFailed(P, name, format, argv)
        ELSE [ret |-> TRUE,
              props |-> [P EXCEPT ![p] = Prop(@.readable, "INTEGER", fmt, items)],
              data |-> Encoded(fmt, argv).data,
              trace |-> <<SetEv(name, format, argv, TRUE),
                          [ev |-> "XChangeDeviceProperty", prop |-> p,
                           format |-> fmt, vals |-> items, ok |-> TRUE]>>]

set_swapxy(P, xi, swap_xy, internOk) ==
    xinput_do_set_int_prop(P, xi, "Evdev Axes Swap", 8, <<swap_xy>>, internOk)

set_invert_xy(P, xi, invert_x, invert_y, internOk) ==
    xinput_do_set_int_prop(P, xi, "Evdev Axis Inversion", 8,
                           <<invert_x, invert_y>>, internOk)

set_calibration(P, xi, new_axys, internOk) ==
    xinput_do_set_int_prop(P, xi, "Evdev Axis Calibration", 32,
                           <<new_axys.x.min, new_axys.x.max,
                             new_axys.y.min, new_axys.y.max>>, internOk)

\* ------------------------------------------------------------ detect_axys
ReadEv(p, ok) ==
    [ev |-> "XGetDeviceProperty", prop |-> p, format |-> 0, vals |-> <<>>,
     ok |-> ok]

\* What lines 146-152 can read: four longs from the returned data.  With
\* fewer than four items the reads run past the payload and may yield anything.
CalDecodings(items) ==
    IF Len(items) = 0 THEN {<<0, 0, 0, 0>>}
    ELSE {d \in [1..4 -> Vals \cup {items[k] : k \in 1..Len(items)}] :
            \A k \in 1..4 : k <= Len(items) => d[k] = items[k]}

\* DetectCalibration making the corrective write on any empty payload
DetectCalibrationAnyEmpty(P, xi, old, internOk, d) ==
    LET c == P.cal
    IN  IF ~c.readable
        THEN [old |-> old, props |-> P, trace |-> <<ReadEv("cal", FALSE)>>]
        ELSE IF Len(c.items) = 0
        THEN LET w == set_calibration(P, xi, old, internOk)
             IN  [old |-> old, props |-> w.props,
                  trace |-> <<ReadEv("cal", TRUE)>> \o w.trace]
        ELSE IF c.format = 32 /\ c.type = "INTEGER"
        THEN [old |-> [old EXCEPT !.x = [min |-> d[1], max |-> d[2]],
                                  !.y = [min |-> d[3], max |-> d[4]]],
              props |-> P, trace |-> <<ReadEv("cal", TRUE)>>]
        ELSE [old |-> old, props |-> P, trace |-> <<ReadEv("cal", TRUE)>>]

\* lines 125-158: the axis-calibration read; d is what the four reads yield
DetectCalibration(P, xi, old, internOk, d) ==
    LET c == P.cal
    IN  IF ~c.readable
        THEN [old |-> old, props |-> P, trace |-> <<ReadEv("cal", FALSE)>>]
        ELSE IF c.format = 32 /\ c.type = "INTEGER"
        THEN IF Len(c.items) = 0
             THEN LET w == set_calibration(P, xi, old, internOk)
                  IN  [old |-> old, props |-> w.props,
                       trace |-> <<ReadEv("cal", TRUE)>> \o w.trace]
             ELSE [old |-> [old EXCEPT !.x = [min |-> d[1], max |-> d[2]],
                                       !.y = [min |-> d[3], max |-> d[4]]],
                   props |-> P, trace |-> <<ReadEv("cal", TRUE)>>]
        ELSE [old |-> old, props |-> P, trace |-> <<ReadEv("cal", TRUE)>>]

\* DetectSwap taking the flag from one item of any format
DetectSwapAnyFormat(P, old) ==
    LET s == P.swap
    IN  IF s.readable /\ Len(s.items) = 1
        THEN [old EXCEPT !.swap_xy = s.items[1]]
        ELSE old

\* lines 160-172: the axes-swap read
DetectSwap(P, old) ==
    LET s == P.swap
    IN  IF s.readable /\ s.format = 8 /\ s.type = "INTEGER" /\ Len(s.items) = 1
        THEN [old EXCEPT !.swap_xy = s.items[1]]
        ELSE old

\* DetectInversion exchanging both ranges when either flag is set
DetectInversionBothAxes(P, old) ==
    LET v == P.inv
    IN  IF v.readable /\ v.format = 8 /\ v.type = "INTEGER" /\ Len(v.items) = 2
        THEN IF v.items[1] # 0 \/ v.items[2] # 0
             THEN [old EXCEPT !.x = [min |-> old.x.max, max |-> old.x.min],
                              !.y = [min |-> old.y.max, max |-> old.y.min]]
             ELSE old
        ELSE old

\* lines 174-191: the axis-inversion read
DetectInversion(P, old) ==
    LET v == P.inv
    IN  IF v.readable /\ v.format = 8 /\ v.type = "INTEGER" /\ Len(v.items) = 2
        THEN LET invert_x == v.items[1] # 0
                 invert_y == v.items[2] # 0
                 ox == IF invert_x
                       THEN [old EXCEPT !.x = [min |-> old.x.max, max |-> old.x.min]]
                       ELSE old
             IN  IF invert_y
                 THEN [ox EXCEPT !.y = [min |-> ox.y.max, max |-> ox.y.min]]
                 ELSE ox
        ELSE old

\* detect_axys assigning orig_axys on entry, before the three reads
DetectAssignFirst(P, xi, old, internOk, d) ==
    LET c == DetectCalibration(P, xi, old, internOk, d)
        s == DetectSwap(c.props, c.old)
        v == DetectInversion(c.props, s)
    IN  [old_axys |-> v, orig_axys |-> old, props |-> c.props,
         trace |-> <<Ev("orig_axys = old_axys")>> \o c.trace
                   \o <<ReadEv("swap", c.props.swap.readable),
                        ReadEv("inv", c.props.inv.readable)>>]

\* detect_axys on device properties P with old_axys = old; the last event is
\* the assignment of line 196
detect_axys(P, xi, old, internOk, d) ==
    LET c == DetectCalibration(P, xi, old, internOk, d)
        s == DetectSwap(c.props, c.old)
        v == DetectInversion(c.props, s)
    IN  [old_axys |-> v, orig_axys |-> v, props |-> c.props,
         trace |-> c.trace \o <<ReadEv("swap", c.props.swap.readable),
                                ReadEv("inv", c.props.inv.readable),
                                Ev("orig_axys = old_axys")>>]

\* ------------------------------------------------------------------ apply
\* oks: which of the three property atoms resolve during this call
AtomOutcomes == [{"swap", "inv", "cal"} -> BOOLEAN]

\* the outcomes that differ for apply(new_axys): the atom of the swap
\* property is only asked for when the swap write is made
OutcomesFor(old, new_axys) ==
    {o \in AtomOutcomes : old.swap_xy = new_axys.swap_xy => o["swap"]}

NoWrite(P) == [ret |-> TRUE, props |-> P, trace |-> <<>>]

\* apply writing the swap property whether or not it changed
ApplyAlwaysSwap(P, xi, old, new_axys, oks) ==
    LET s == set_swapxy(P, xi, new_axys.swap_xy, oks["swap"])
        v == set_invert_xy(s.props, xi, 0, 0, oks["inv"])
        c == set_calibration(v.props, xi, new_axys, oks["cal"])
    IN  [ret |-> s.ret /\ c.ret,
         props |-> c.props,
         old_axys |-> old,
         trace |-> s.trace \o v.trace \o c.trace \o <<Ev("XSync")>>]

\* apply writing the calibration before the inversion
ApplyCalibrationFirst(P, xi, old, new_axys, oks) ==
    LET s == IF old.swap_xy # new_axys.swap_xy
             THEN set_swapxy(P, xi, new_axys.swap_xy, oks["swap"])
             ELSE NoWrite(P)
        c == set_calibration(s.props, xi, new_axys, oks["cal"])
        v == set_invert_xy(c.props, xi, 0, 0, oks["inv"])
    IN  [ret |-> s.ret /\ c.ret,
         props |-> v.props,
         old_axys |-> old,
         trace |-> s.trace \o c.trace \o v.trace \o <<Ev("XSync")>>]

\* apply leaving the inversion property alone
ApplyKeepsInversion(P, xi, old, new_axys, oks) ==
    LET s == IF old.swap_xy # new_axys.swap_xy
             THEN set_swapxy(P, xi, new_axys.swap_xy, oks["swap"])
             ELSE NoWrite(P)
        c == set_calibration(s.props, xi, new_axys, oks["cal"])
    IN  [ret |-> s.ret /\ c.ret,
         props |-> c.props,
         old_axys |-> old,
         trace |-> s.trace \o c.trace \o <<Ev("XSync")>>]

\* apply taking the target as the calibration held from then on
ApplyAdoptsTarget(P, xi, old, new_axys, oks) ==
    LET s == IF old.swap_xy # new_axys.swap_xy
             THEN set_swapxy(P, xi, new_axys.swap_xy, oks["swap"])
             ELSE NoWrite(P)
        v == set_invert_xy(s.props, xi, 0, 0, oks["inv"])
        c == set_calibration(v.props, xi, new_axys, oks["cal"])
    IN  [ret |-> s.ret /\ c.ret,
         props |-> c.props,
         old_axys |-> new_axys,
         trace |-> s.trace \o v.trace \o c.trace \o <<Ev("XSync")>>]

\* apply(new_axys) with old_axys = old; old_axys of the result is the member
\* after the call, which no statement of lines 297-317 assigns
apply(P, xi, old, new_axys, oks) ==
    LET s == IF old.swap_xy # new_axys.swap_xy
             THEN set_swapxy(P, xi, new_axys.swap_xy, oks["swap"])
             ELSE NoWrite(P)
        v == set_invert_xy(s.props, xi, 0, 0, oks["inv"])
        c == set_calibration(v.props, xi, new_axys, oks["cal"])
    IN  [ret |-> s.ret /\ c.ret,
         props |-> c.props,
         old_axys |-> old,
         trace |-> s.trace \o v.trace \o c.trace \o <<Ev("XSync")>>]

\* ------------------------------------------------------------ finish_data
Placeholder == "!!Name_Of_TouchScreen!!"

\* OutEv printing each range as max then min
OutEvMaxFirst(kind, key, new_axys) ==
    [ev |-> kind, prop |-> key, format |-> 0,
     vals |-> <<new_axys.x.max, new_axys.x.min, new_axys.y.max,
                new_axys.y.min, new_axys.swap_xy>>,
     ok |-> TRUE]

\* what an output function prints: the key of the device and the five values
OutEv(kind, key, new_axys) ==
    [ev |-> kind, prop |-> key, format |-> 0,
     vals |-> <<new_axys.x.min, new_axys.x.max, new_axys.y.min,
                new_axys.y.max, new_axys.swap_xy>>,
     ok |-> TRUE]

\* sysfs: get_sysfs_name() returned a name
SysfsKey(sysfs) == IF sysfs THEN "sysfs_name" ELSE Placeholder

output_xorgconfd(new_axys, sysfs) ==
    [ret |-> TRUE,
     trace |-> <<OutEv("output_xorgconfd", SysfsKey(sysfs), new_axys)>>
               \o (IF sysfs THEN <<>> ELSE <<Ev("hint")>>)]

output_hal(new_axys, sysfs) ==
    [ret |-> TRUE,
     trace |-> <<OutEv("output_hal", SysfsKey(sysfs), new_axys)>>
               \o (IF sysfs THEN <<>> ELSE <<Ev("hint")>>)]

output_xinput(new_axys) ==
    [ret |-> TRUE,
     trace |-> <<OutEv("output_xinput", "device_name", new_axys)>>]

SupportedTypes ==
    {"OUTYPE_AUTO", "OUTYPE_XORGCONFD", "OUTYPE_HAL", "OUTYPE_XINPUT"}

\* success &= o.ret, with the output's prints
AndOutput(success, o) == [ret |-> success /\ o.ret, trace |-> o.trace]

\* Persist giving up when apply has failed
PersistOnlyAfterSuccess(success, type, new_axys, xorgconfd, sysfs) ==
    IF ~success THEN [ret |-> FALSE, trace |-> <<>>]
    ELSE CASE type = "OUTYPE_AUTO" ->
                IF xorgconfd
                THEN AndOutput(success, output_xorgconfd(new_axys, sysfs))
                ELSE AndOutput(success, output_xinput(new_axys))
          [] type = "OUTYPE_XORGCONFD" ->
                AndOutput(success, output_xorgconfd(new_axys, sysfs))
          [] type = "OUTYPE_HAL" ->
                AndOutput(success, output_hal(new_axys, sysfs))
          [] type = "OUTYPE_XINPUT" ->
                AndOutput(success, output_xinput(new_axys))
          [] OTHER -> [ret |-> FALSE, trace |-> <<Ev("error_output_type")>>]

\* Persist with the break of the OUTYPE_XORGCONFD case missing
PersistFallThrough(success, type, new_axys, xorgconfd, sysfs) ==
    CASE type = "OUTYPE_AUTO" ->
            IF xorgconfd
            THEN AndOutput(success, output_xorgconfd(new_axys, sysfs))
            ELSE AndOutput(success, output_xinput(new_axys))
      [] type = "OUTYPE_XORGCONFD" ->
            [ret |-> success,
             trace |-> output_xorgconfd(new_axys, sysfs).trace
                       \o output_hal(new_axys, sysfs).trace]
      [] type = "OUTYPE_HAL" ->
            AndOutput(success, output_hal(new_axys, sysfs))
      [] type = "OUTYPE_XINPUT" ->
            AndOutput(success, output_xinput(new_axys))
      [] OTHER -> [ret |-> FALSE, trace |-> <<Ev("error_output_type")>>]

\* Persist with OUTYPE_AUTO falling back to the policy snippet
PersistAutoHal(success, type, new_axys, xorgconfd, sysfs) ==
    CASE type = "OUTYPE_AUTO" ->
            IF xorgconfd
            THEN AndOutput(success, output_xorgconfd(new_axys, sysfs))
            ELSE AndOutput(success, output_hal(new_axys, sysfs))
      [] type = "OUTYPE_XORGCONFD" ->
            AndOutput(success, output_xorgconfd(new_axys, sysfs))
      [] type = "OUTYPE_HAL" ->
            AndOutput(success, output_hal(new_axys, sysfs))
      [] type = "OUTYPE_XINPUT" ->
            AndOutput(success, output_xinput(new_axys))
      [] OTHER -> [ret |-> FALSE, trace |-> <<Ev("error_output_type")>>]

\* the switch of lines 207-228 with success as it stands after apply;
\* xorgconfd: has_xorgconfd_support()
Persist(success, type, new_axys, xorgconfd, sysfs) ==
    CASE type = "OUTYPE_AUTO" ->
            IF xorgconfd
            THEN AndOutput(success, output_xorgconfd(new_axys, sysfs))
            ELSE AndOutput(success, output_xinput(new_axys))
      [] type = "OUTYPE_XORGCONFD" ->
            AndOutput(success, output_xorgconfd(new_axys, sysfs))
      [] type = "OUTYPE_HAL" ->
            AndOutput(success, output_hal(new_axys, sysfs))
      [] type = "OUTYPE_XINPUT" ->
            AndOutput(success, output_xinput(new_axys))
      [] OTHER -> [ret |-> FALSE, trace |-> <<Ev("error_output_type")>>]

\* finish_data(new_axys)
finish_data(P, xi, old, new_axys, type, oks, xorgconfd, sysfs) ==
    LET a == apply(P, xi, old, new_axys, oks)
        o == Persist(a.ret, type, new_axys, xorgconfd, sysfs)
    IN  [ret |-> o.ret,
         apply_ret |-> a.ret,
         props |-> a.props,
         old_axys |-> a.old_axys,
         trace |-> a.trace \o <<Ev("persist")>> \o o.trace]

\* ------------------------------------------------------------ constructor
ErrConnect == "Evdev: Unable to connect to X server"
ErrFind == "Evdev: Unable to find device"
ErrOpenDevice == "Evdev: Unable to open device"
ErrXiProp ==
    "Evdev: you need at least libXi 1.2 and inputproto 1.5 for dynamic recalibration of evdev."
ErrCalProp ==
    "Evdev: \"Evdev Axis Calibration\" property missing, not a (valid) evdev device"

\* Construct reporting an unreadable calibration property as a missing device
ConstructUnreadableAsNotFound(xi, connectOk, idGiven, fc, devOpenOk, P) ==
    LET warn == IF ~idGiven /\ fc.warned THEN <<Ev("warn_multiple")>> ELSE <<>>
        t1 == <<Ev("XOpenDisplay")>> \o warn
        t2 == t1 \o <<Ev("XOpenDevice")>>
    IN  IF ~connectOk
        THEN [err |-> ErrConnect, display |-> "none", dev |-> "none",
              trace |-> <<>>]
        ELSE IF ~idGiven /\ ~fc.found
        THEN [err |-> ErrFind, display |-> "closed", dev |-> "none",
              trace |-> t1 \o <<Ev("XCloseDisplay")>>]
        ELSE IF ~devOpenOk
        THEN [err |-> ErrOpenDevice, display |-> "closed", dev |-> "none",
              trace |-> t1 \o <<Ev("XCloseDisplay")>>]
        ELSE IF ~xi
        THEN [err |-> ErrXiProp, display |-> "open", dev |-> "open",
              trace |-> t2]
        ELSE IF ~P.cal.readable
        THEN [err |-> ErrFind, display |-> "closed", dev |-> "closed",
              trace |-> t2 \o <<ReadEv("cal", FALSE), Ev("XCloseDevice"),
                                Ev("XCloseDisplay")>>]
        ELSE [err |-> "", display |-> "open", dev |-> "open",
              trace |-> t2 \o <<ReadEv("cal", TRUE)>>]

\* The constructor of lines 43-99.  connectOk: XOpenDisplay returns a
\* display; idGiven: device_id is not (XID)-1; fc: the lookup of line 60;
\* devOpenOk: XOpenDevice returns a device; P: the properties of the device.
Construct(xi, connectOk, idGiven, fc, devOpenOk, P) ==
    LET warn == IF ~idGiven /\ fc.warned THEN <<Ev("warn_multiple")>> ELSE <<>>
        t1 == <<Ev("XOpenDisplay")>> \o warn
        t2 == t1 \o <<Ev("XOpenDevice")>>
    IN  IF ~connectOk
        THEN [err |-> ErrConnect, display |-> "none", dev |-> "none",
              trace |-> <<>>]
        ELSE IF ~idGiven /\ ~fc.found
        THEN [err |-> ErrFind, display |-> "closed", dev |-> "none",
              trace |-> t1 \o <<Ev("XCloseDisplay")>>]
        ELSE IF ~devOpenOk
        THEN [err |-> ErrOpenDevice, display |-> "closed", dev |-> "none",
              trace |-> t1 \o <<Ev("XCloseDisplay")>>]
        ELSE IF ~xi
        THEN [err |-> ErrXiProp, display |-> "open", dev |-> "open",
              trace |-> t2]
        ELSE IF ~P.cal.readable
        THEN [err |-> ErrCalProp, display |-> "closed", dev |-> "closed",
              trace |-> t2 \o <<ReadEv("cal", FALSE), Ev("XCloseDevice"),
                                Ev("XCloseDisplay")>>]
        ELSE [err |-> "", display |-> "open", dev |-> "open",
              trace |-> t2 \o <<ReadEv("cal", TRUE)>>]

\* ---------------------------------------------------------------- actions
\* the device states a session of the life-cycle specification can meet
SessionProps ==
    {[cal |-> c, swap |-> s, inv |-> i] :
        c \in {Unreadable, Prop(TRUE, "INTEGER", 32, <<>>),
               Prop(TRUE, "INTEGER", 32, <<0, 1, 0, 1>>)},
        s \in {Unreadable, Prop(TRUE, "INTEGER", 8, <<0>>),
               Prop(TRUE, "INTEGER", 8, <<1>>)},
        i \in {Prop(TRUE, "INTEGER", 8, <<0, 0>>),
               Prop(TRUE, "INTEGER", 8, <<1, 0>>)}}

NoCall == [op |-> "none", trace |-> <<>>]

\* before the constructor: the build and the constructor's arguments
Init ==
    /\ haveXiProp \in BOOLEAN
    /\ pc = "new"
    /\ display = "none"
    /\ dev = "none"
    /\ output_type \in OutputTypes
    /\ old_axys \in SessionAxys
    /\ orig_axys = Unset
    /\ detected = FALSE
    /\ props = NoProps
    /\ call = NoCall

\* CalibratorEvdev::CalibratorEvdev
Open ==
    /\ pc = "new"
    /\ \E connectOk \in BOOLEAN, idGiven \in BOOLEAN, fc \in FindCases,
          devOpenOk \in BOOLEAN, P \in SessionProps :
        LET r == Construct(haveXiProp, connectOk, idGiven, fc, devOpenOk, P)
            looked == connectOk /\ ~idGiven
        IN  /\ pc' = IF r.err = "" THEN "open" ELSE "failed"
            /\ display' = r.display
            /\ dev' = r.dev
            /\ props' = IF r.dev = "none" THEN NoProps ELSE P
            /\ call' = [op |-> "open", err |-> r.err, trace |-> r.trace,
                        looked_up |-> looked,
                        is_id |-> looked /\ fc.is_id,
                        nmatch |-> IF looked THEN fc.nmatch ELSE 0]
    /\ UNCHANGED <<haveXiProp, output_type, old_axys, orig_axys, detected>>

\* CalibratorEvdev::detect_axys
Detect ==
    /\ pc = "open"
    /\ \E internOk \in BOOLEAN, d \in CalDecodings(props.cal.items) :
       \E r \in {detect_axys(props, haveXiProp, old_axys, internOk, d)} :
            /\ old_axys' = r.old_axys
            /\ orig_axys' = r.orig_axys
            /\ props' = r.props
            /\ call' = [op |-> "detect", old |-> old_axys, before |-> props,
                        redetect |-> detected, trace |-> r.trace]
    /\ detected' = TRUE
    /\ UNCHANGED <<haveXiProp, pc, display, dev, output_type>>

\* CalibratorEvdev::apply
Apply ==
    /\ pc = "open"
    /\ \E new_axys \in Targets :
       \E oks \in OutcomesFor(old_axys, new_axys) :
       \E r \in {apply(props, haveXiProp, old_axys, new_axys, oks)} :
            /\ props' = r.props
            /\ old_axys' = r.old_axys
            /\ call' = [op |-> "apply", old |-> old_axys, new_axys |-> new_axys,
                        oks |-> oks, ret |-> r.ret, trace |-> r.trace]
    /\ UNCHANGED <<haveXiProp, pc, display, dev, output_type, orig_axys,
                   detected>>

\* the strategy selected calls get_sysfs_name()
UsesSysfs(type, xorgconfd) ==
    \/ type \in {"OUTYPE_XORGCONFD", "OUTYPE_HAL"}
    \/ (type = "OUTYPE_AUTO" /\ xorgconfd)

\* CalibratorEvdev::finish_data
Finish ==
    /\ pc = "open"
    /\ \E new_axys \in Targets,
          xorgconfd \in IF output_type = "OUTYPE_AUTO" THEN BOOLEAN ELSE {FALSE} :
       \E oks \in OutcomesFor(old_axys, new_axys) :
       \E sysfs \in IF UsesSysfs(output_type, xorgconfd) THEN BOOLEAN
                    ELSE {FALSE} :
       \E r \in {finish_data(props, haveXiProp, old_axys, new_axys,
                               output_type, oks, xorgconfd, sysfs)} :
            /\ props' = r.props
            /\ old_axys' = r.old_axys
            /\ call' = [op |-> "finish", old |-> old_axys, new_axys |-> new_axys,
                        oks |-> oks, xorgconfd |-> xorgconfd, sysfs |-> sysfs,
                        ret |-> r.ret, apply_ret |-> r.apply_ret,
                        trace |-> r.trace]
    /\ UNCHANGED <<haveXiProp, pc, display, dev, output_type, orig_axys,
                   detected>>

\* CalibratorEvdev::~CalibratorEvdev
Close ==
    /\ pc = "open"
    /\ pc' = "closed"
    /\ dev' = "closed"
    /\ display' = "closed"
    /\ call' = [op |-> "close",
                trace |-> <<Ev("XCloseDevice"), Ev("XCloseDisplay")>>]
    /\ UNCHANGED <<haveXiProp, output_type, old_axys, orig_axys, detected,
                   props>>

Next == Open \/ Detect \/ Apply \/ Finish \/ Close

Spec == Init /\ [][Next]_vars

\* ------------------------------------------- the device lookup on its own
\* xinput_find_device_info applied to every identity string, device list and
\* only_extended flag within the bounds
InitFind ==
    /\ haveXiProp = TRUE
    /\ pc = "lookup"
    /\ display = "open"
    /\ dev = "none"
    /\ output_type = "OUTYPE_AUTO"
    /\ old_axys \in SessionAxys
    /\ orig_axys = Unset
    /\ detected = FALSE
    /\ props = NoProps
    /\ \E n \in Names, l \in DeviceLists, e \in BOOLEAN :
        call = [op |-> "find_args", name |-> n, devices |-> l,
                only_extended |-> e]

FindDevice ==
    /\ pc = "lookup"
    /\ call.op = "find_args"
    /\ LET r == xinput_find_device_info(call.devices, call.name,
                                        call.only_extended)
       IN  call' = [op |-> "find", name |-> call.name,
                    devices |-> call.devices,
                    only_extended |-> call.only_extended,
                    found |-> r.found, warned |-> r.warned]
    /\ UNCHANGED <<haveXiProp, pc, display, dev, output_type, old_axys,
                   orig_axys, detected, props>>

NextFind == FindDevice

SpecFind == InitFind /\ [][NextFind]_vars

\* --------------------------------------------- detect_axys on every device
\* a session right after a successful constructor, on every device state
\* within the bounds
InitDetect ==
    /\ haveXiProp = TRUE
    /\ pc = "open"
    /\ display = "open"
    /\ dev = "open"
    /\ output_type = "OUTYPE_AUTO"
    /\ old_axys \in DefaultAxys
    /\ orig_axys = Unset
    /\ detected = FALSE
    /\ props \in PropStates
    /\ call = NoCall

NextDetect == Detect

SpecDetect == InitDetect /\ [][NextDetect]_vars

\* ------------------------------------ xinput_do_set_int_prop on its own
\* argument values: small ones and one that does not fit in 8 bits
SetVals == {0, 1, 257}
SetArgvs == UNION {[1..n -> SetVals] : n \in 0..MaxArgc}
\* 0 asks for the format of the existing property; 64 is no X format
SetFormats == {0, 8, 16, 32, 64}
SetNames == {"Evdev Axis Calibration", "Evdev Axes Swap", "Evdev Axis Inversion"}

\* what the probe for the existing format can meet
ProbeProps ==
    {Unreadable, Absent, Prop(TRUE, "INTEGER", 8, <<1>>),
     Prop(TRUE, "INTEGER", 16, <<1>>), Prop(TRUE, "INTEGER", 32, <<1, 0, 1, 0>>)}

SetPropStates == {[cal |-> q, swap |-> q, inv |-> q] : q \in ProbeProps}

\* an open session about to call xinput_do_set_int_prop with every name,
\* format, value sequence and atom outcome within the bounds
InitSet ==
    /\ haveXiProp \in BOOLEAN
    /\ pc = "open"
    /\ display = "open"
    /\ dev = "open"
    /\ output_type = "OUTYPE_AUTO"
    /\ old_axys \in SessionAxys
    /\ orig_axys = Unset
    /\ detected = FALSE
    /\ props \in SetPropStates
    /\ \E n \in SetNames, f \in SetFormats, a \in SetArgvs, ok \in BOOLEAN :
        call = [op |-> "set_args", name |-> n, format |-> f, argv |-> a,
                internOk |-> ok]

\* CalibratorEvdev::xinput_do_set_int_prop
SetIntProp ==
    /\ pc = "open"
    /\ call.op = "set_args"
    /\ \E r \in {xinput_do_set_int_prop(props, haveXiProp, call.name,
                                          call.format, call.argv,
                                          call.internOk)} :
           /\ props' = r.props
           /\ call' = [op |-> "set", name |-> call.name,
                       format |-> call.format, argv |-> call.argv,
                       internOk |-> call.internOk, before |-> props,
                       ret |-> r.ret, data |-> r.data, trace |-> r.trace]
    /\ UNCHANGED <<haveXiProp, pc, display, dev, output_type, old_axys,
                   orig_axys, detected>>

NextSet == SetIntProp

SpecSet == InitSet /\ [][NextSet]_vars

\* ------------------------------------- detect_axys, apply, detect_axys
\* the three properties as the evdev driver keeps them: four 32-bit integers,
\* one 8-bit flag, two 8-bit flags
WellFormed(P) ==
    /\ P.cal.readable /\ P.cal.type = "INTEGER" /\ P.cal.format = 32
    /\ Len(P.cal.items) = 4
    /\ P.swap.readable /\ P.swap.type = "INTEGER" /\ P.swap.format = 8
    /\ Len(P.swap.items) = 1
    /\ P.inv.readable /\ P.inv.type = "INTEGER" /\ P.inv.format = 8
    /\ Len(P.inv.items) = 2

\* a session right after a successful constructor on a well-formed device
InitRound ==
    /\ haveXiProp = TRUE
    /\ pc = "open"
    /\ display = "open"
    /\ dev = "open"
    /\ output_type = "OUTYPE_AUTO"
    /\ old_axys \in DefaultAxys
    /\ orig_axys = Unset
    /\ detected = FALSE
    /\ props \in {P \in PropStates : WellFormed(P)}
    /\ call = NoCall

\* apply called right after detect_axys, as the calibrator's main loop does
ApplyAfterDetect == call.op = "detect" /\ Apply

NextRound == Detect \/ ApplyAfterDetect

SpecRound == InitRound /\ [][NextRound]_vars

\* ================================================================ claims
\* reading call.trace
IsSet(e) == e.ev = "set_int_prop"
IsSwapSet(e) == e.ev = "set_int_prop" /\ e.prop = "swap"
IsCalSet(e) == e.ev = "set_int_prop" /\ e.prop = "cal"
IsOutput(e) == e.ev \in {"output_xorgconfd", "output_hal", "output_xinput"}

SetEvents(t) == SelectSeq(t, IsSet)
Outputs(t) == SelectSeq(t, IsOutput)
Positions(t, ev) == {i \in 1..Len(t) : t[i].ev = ev}
RequestPositions(t) ==
    {i \in 1..Len(t) : t[i].ev \in {"set_int_prop", "XChangeDeviceProperty"}}
OutputPositions(t) == {i \in 1..Len(t) : IsOutput(t[i])}

\* the last operation ran apply (on its own or inside finish_data)
RanApply == call.op \in {"apply", "finish"}
ApplyRet == IF call.op = "apply" THEN call.ret ELSE call.apply_ret
FourOf(a) == <<a.x.min, a.x.max, a.y.min, a.y.max>>

\* C1: apply issues a write of the axes-swap property if and only if the
\* swap flag of the calibration it holds differs from the target's; it issues
\* at most one, with the target's swap flag as the value, whatever the
\* outcome of the writes; after detect the calibration held is the original.
C1_SwapWriteIffChanged ==
    RanApply =>
        LET w == SelectSeq(call.trace, IsSwapSet)
        IN  /\ (Len(w) >= 1) <=> (call.old.swap_xy # call.new_axys.swap_xy)
            /\ Len(w) <= 1
            /\ \A i \in 1..Len(w) :
                /\ w[i].vals = <<call.new_axys.swap_xy>>
                /\ w[i].format = 8
            /\ detected => call.old = orig_axys

\* C1 witness: the swap flag differs and the swap write, which fails, was issued
C1_Witness ==
    /\ RanApply
    /\ detected
    /\ call.old.swap_xy # call.new_axys.swap_xy
    /\ \E i \in 1..Len(call.trace) :
        IsSwapSet(call.trace[i]) /\ ~call.trace[i].ok

\* C2: apply returns TRUE if and only if every write it attempted succeeded
\* (the swap write when issued, the inversion write and the calibration
\* write), a failed inversion write included.
C2_ReturnsAndOfEveryWrite ==
    RanApply =>
        (ApplyRet <=> \A i \in 1..Len(call.trace) :
                            IsSet(call.trace[i]) => call.trace[i].ok)

\* C3 as claimed: finish attempts persist after apply whatever apply returned,
\* returns the AND of the two, and when the calibration write failed and the
\* swap write succeeded it returns FALSE and has emitted an artifact.
C3_ArtifactAfterFailedApply ==
    call.op = "finish" =>
        /\ Positions(call.trace, "persist") # {}
        /\ call.ret <=> (call.apply_ret /\ Outputs(call.trace) # <<>>)
        /\ (/\ \E i \in 1..Len(call.trace) :
                    IsCalSet(call.trace[i]) /\ ~call.trace[i].ok
            /\ \E i \in 1..Len(call.trace) :
                    IsSwapSet(call.trace[i]) /\ call.trace[i].ok)
           => (~call.ret /\ Outputs(call.trace) # <<>>)

\* C3 amended: finish runs apply, then the persist step whatever apply
\* returned; it returns the AND of apply's result and persist's (persist
\* fails exactly when the output type is unsupported, emitting nothing); when
\* the calibration write failed and the swap write succeeded finish returns
\* FALSE, and an artifact is emitted if and only if the output type is
\* supported.
C3_FinishIsApplyAndPersist ==
    call.op = "finish" =>
        /\ Positions(call.trace, "persist") # {}
        /\ \A i \in Positions(call.trace, "XSync"),
              j \in Positions(call.trace, "persist") : i < j
        /\ call.ret <=> (call.apply_ret /\ Outputs(call.trace) # <<>>)
        /\ (Outputs(call.trace) # <<>>) <=> (output_type \in SupportedTypes)
        /\ (/\ \E i \in 1..Len(call.trace) :
                    IsCalSet(call.trace[i]) /\ ~call.trace[i].ok
            /\ \E i \in 1..Len(call.trace) :
                    IsSwapSet(call.trace[i]) /\ call.trace[i].ok)
           => ~call.ret

\* C3 witness: the calibration write failed, the swap write succeeded, finish
\* returned FALSE and an artifact was emitted
C3_Witness ==
    /\ call.op = "finish"
    /\ ~call.ret
    /\ \E i \in 1..Len(call.trace) :
            IsCalSet(call.trace[i]) /\ ~call.trace[i].ok
    /\ \E i \in 1..Len(call.trace) :
            IsSwapSet(call.trace[i]) /\ call.trace[i].ok
    /\ Outputs(call.trace) # <<>>

\* C4: when the constructor fails, the connection and the device handle it
\* had acquired have been released, and nothing was released that had not
\* been acquired.
C4_ReleasedOnEveryFailure ==
    pc = "failed" =>
        /\ display # "open"
        /\ dev # "open"
        /\ Positions(call.trace, "XCloseDisplay") # {}
              => Positions(call.trace, "XOpenDisplay") # {}
        /\ Positions(call.trace, "XCloseDevice") # {}
              => Positions(call.trace, "XOpenDevice") # {}

\* C5 as claimed: every finish call executes exactly one persistence
\* strategy, whatever the output type.
C5_ExactlyOneStrategyAlways ==
    call.op = "finish" => Len(Outputs(call.trace)) = 1

\* C5 amended: a finish call with a supported output type (auto, config
\* snippet, policy snippet, runtime command) executes exactly one strategy;
\* with any other output type it executes none, reports the error and
\* returns FALSE; it never executes more than one.
C5_OneStrategyIfSupported ==
    call.op = "finish" =>
        /\ output_type \in SupportedTypes => Len(Outputs(call.trace)) = 1
        /\ output_type \notin SupportedTypes =>
            /\ Len(Outputs(call.trace)) = 0
            /\ Positions(call.trace, "error_output_type") # {}
            /\ ~call.ret

\* C5 witness: a finish call whose apply failed, with the policy snippet as
\* the one strategy executed
C5_Witness ==
    /\ call.op = "finish"
    /\ output_type = "OUTYPE_HAL"
    /\ ~call.apply_ret
    /\ Len(Outputs(call.trace)) = 1
    /\ Outputs(call.trace)[1].ev = "output_hal"

\* C6: with output type auto, finish executes the config snippet when the
\* host probe reports support for it and the runtime command otherwise; the
\* policy snippet is executed only when it is the output type requested.
C6_AutoResolution ==
    call.op = "finish" =>
        LET o == Outputs(call.trace)
        IN  /\ (output_type = "OUTYPE_AUTO" /\ call.xorgconfd) =>
                (Len(o) = 1 /\ o[1].ev = "output_xorgconfd")
            /\ (output_type = "OUTYPE_AUTO" /\ ~call.xorgconfd) =>
                (Len(o) = 1 /\ o[1].ev = "output_xinput")
            /\ \A i \in 1..Len(o) :
                o[i].ev = "output_hal" => output_type = "OUTYPE_HAL"

\* C6 witness: auto on a host without config-snippet support ran the
\* runtime command
C6_Witness ==
    /\ call.op = "finish"
    /\ output_type = "OUTYPE_AUTO"
    /\ ~call.xorgconfd
    /\ Len(Outputs(call.trace)) = 1
    /\ Outputs(call.trace)[1].ev = "output_xinput"

\* C7: a non-numeric name matching more than one device makes the constructor
\* fail without opening a device handle, with an error other than the one of
\* a name matching no device.
C7_AmbiguousIsDistinct ==
    /\ (call.op = "open" /\ call.looked_up /\ call.nmatch = 0) =>
            (pc = "failed" /\ call.err = ErrFind)
    /\ (call.op = "open" /\ call.looked_up /\ ~call.is_id /\ call.nmatch > 1) =>
            /\ pc = "failed"
            /\ dev = "none"
            /\ Positions(call.trace, "XOpenDevice") = {}
            /\ call.err # ErrFind

\* the devices a lookup may select: all, or the extension devices only
Eligible(l, only_extended) ==
    {i \in 1..Len(l) : only_extended => l[i].extended}

\* C8: a string of digits only selects by numeric id and never by name, a
\* string with a non-digit selects by exact name and never by id, and a
\* device is returned exactly when one device is selected, and is that one.
C8_ResolutionByIdOrName ==
    call.op = "find" =>
        LET l == call.devices
            digits == \A k \in 1..Len(call.name) :
                        call.name[k] \in {"0", "1", "2", "3", "4", "5", "6",
                                          "7", "8", "9"}
            selected ==
                IF digits
                THEN {i \in Eligible(l, call.only_extended) :
                        l[i].id = atoi(call.name)}
                ELSE {i \in Eligible(l, call.only_extended) :
                        l[i].name = call.name}
        IN  /\ call.found # 0 <=> Cardinality(selected) = 1
            /\ call.found # 0 => call.found \in selected
            /\ call.warned <=> Cardinality(selected) > 1

\* C8 witness: a digit string that is the name of one device and the id of
\* another resolves to the device with that id
C8_Witness ==
    /\ call.op = "find"
    /\ call.name = <<"1">>
    /\ call.found # 0
    /\ call.devices[call.found].id = 1
    /\ call.devices[call.found].name # <<"1">>
    /\ \E i \in 1..Len(call.devices) :
        call.devices[i].name = <<"1">> /\ call.devices[i].id # 1

\* the corrective writes of a detect: its writes of the calibration property
CorrectiveWrites == SelectSeq(call.trace, IsCalSet)

\* C9 as claimed: in detect, a successful read of the calibration property
\* that returns no items triggers exactly one corrective write, of the
\* calibration held.
C9_WriteOnAnyEmptyRead ==
    (call.op = "detect" /\ call.before.cal.readable
        /\ Len(call.before.cal.items) = 0) =>
            /\ Len(CorrectiveWrites) = 1
            /\ CorrectiveWrites[1].vals = FourOf(call.old)

\* C9 amended: in detect, a successful read of the calibration property that
\* returns no items of 32-bit integer type triggers exactly one corrective
\* write, whose four values are the calibration held at that moment, and
\* detect completes whether or not that write succeeds; an empty payload of
\* another type or format triggers no write.
C9_WriteOnEmptyInt32Read ==
    (call.op = "detect" /\ call.before.cal.readable
        /\ Len(call.before.cal.items) = 0) =>
            /\ detected /\ orig_axys = old_axys
            /\ Len(SetEvents(call.trace)) = Len(CorrectiveWrites)
            /\ IF call.before.cal.format = 32 /\ call.before.cal.type = "INTEGER"
               THEN /\ Len(CorrectiveWrites) = 1
                    /\ CorrectiveWrites[1].vals = FourOf(call.old)
                    /\ CorrectiveWrites[1].format = 32
                    /\ CorrectiveWrites[1].ok => props.cal.items = FourOf(call.old)
                    /\ ~CorrectiveWrites[1].ok => props.cal = call.before.cal
               ELSE Len(CorrectiveWrites) = 0

\* C9 witness: the corrective write was issued and failed, and detect completed
C9_Witness ==
    /\ call.op = "detect"
    /\ call.before.cal = Prop(TRUE, "INTEGER", 32, <<>>)
    /\ Len(CorrectiveWrites) = 1
    /\ ~CorrectiveWrites[1].ok
    /\ orig_axys = old_axys

\* C10: apply issues the swap write (when the flag changed), then the
\* inversion write with (0,0), then the calibration write with the target's
\* four values, then flushes the connection; finish emits the artifact only
\* after the flush.
C10_WriteOrder ==
    RanApply =>
        LET w == SetEvents(call.trace)
            n == Len(w)
        IN  /\ n = IF call.old.swap_xy # call.new_axys.swap_xy THEN 3 ELSE 2
            /\ n = 3 => w[1].prop = "swap"
            /\ w[n - 1].prop = "inv" /\ w[n - 1].vals = <<0, 0>>
            /\ w[n].prop = "cal" /\ w[n].vals = FourOf(call.new_axys)
            /\ Cardinality(Positions(call.trace, "XSync")) = 1
            /\ \A i \in RequestPositions(call.trace),
                  j \in Positions(call.trace, "XSync") : i < j
            /\ \A i \in Positions(call.trace, "XSync"),
                  j \in OutputPositions(call.trace) : i < j

\* C10 witness: a finish that changed the swap flag, made all three writes
\* and emitted an artifact
C10_Witness ==
    /\ call.op = "finish"
    /\ Len(SetEvents(call.trace)) = 3
    /\ \A i \in 1..Len(call.trace) : call.trace[i].ok
    /\ OutputPositions(call.trace) # {}

\* C11: whatever strategy finish_data runs, the artifact it emits carries the
\* target's x.min, x.max, y.min, y.max in that order and then the target's
\* swap flag, whether or not apply succeeded and whatever the device holds;
\* when the strategy asks for the sysfs name and there is none, the artifact
\* is keyed by the placeholder, a hint is printed, and the strategy still
\* reports success, so that finish_data returns what apply returned.
C11_ArtifactEmbedsTarget ==
    call.op = "finish" =>
        LET o == Outputs(call.trace)
            t == call.new_axys
        IN  /\ output_type \in SupportedTypes => Len(o) = 1
            /\ \A i \in 1..Len(o) :
                   o[i].vals = <<t.x.min, t.x.max, t.y.min, t.y.max, t.swap_xy>>
            /\ UsesSysfs(output_type, call.xorgconfd) =>
                   /\ Len(o) = 1
                   /\ o[1].prop = Placeholder <=> ~call.sysfs
                   /\ Positions(call.trace, "hint") # {} <=> ~call.sysfs
                   /\ call.ret = call.apply_ret

\* finish_data after a failed apply, with no sysfs name, on a device whose
\* calibration is not the target: the artifact has the placeholder key
C11_Witness ==
    /\ call.op = "finish"
    /\ ~call.apply_ret
    /\ UsesSysfs(output_type, call.xorgconfd)
    /\ ~call.sysfs
    /\ Len(Outputs(call.trace)) = 1
    /\ Outputs(call.trace)[1].prop = Placeholder
    /\ props.cal.items # FourOf(call.new_axys)
    /\ Outputs(call.trace)[1].vals =
           FourOf(call.new_axys) \o <<call.new_axys.swap_xy>>

\* C12: detect_axys is idempotent on a device nothing else touches: for every
\* state of the three properties, after detect_axys the original and the
\* current calibration are equal, and a detect_axys that follows another with
\* nothing but detect_axys in between leaves the same calibration as the one
\* before it did.
C12_DetectIdempotent ==
    call.op = "detect" =>
        /\ orig_axys = old_axys
        /\ call.redetect => old_axys = call.old

\* C13: when the constructor has opened the device in a build with property
\* support, it reads the axis-calibration property once; if that read fails
\* the constructor throws the "property missing" error, which is not the
\* error of a device that was not found, after closing device and display, and
\* there is no session; if the read succeeds, with however many items, the
\* constructor succeeds.  No other failure carries the "property missing"
\* error and the not-found error is only thrown before the device is opened.
C13_UnreadableIsUnsupported ==
    call.op = "open" =>
        LET opened == Positions(call.trace, "XOpenDevice") # {}
            reads == Positions(call.trace, "XGetDeviceProperty")
        IN  /\ (opened /\ haveXiProp) =>
                 /\ Cardinality(reads) = 1
                 /\ \A i \in reads : call.trace[i].prop = "cal"
                 /\ props.cal.readable =>
                        call.err = "" /\ pc = "open" /\ dev = "open"
                 /\ ~props.cal.readable =>
                        /\ call.err = ErrCalProp
                        /\ call.err # ErrFind
                        /\ pc = "failed"
                        /\ dev = "closed" /\ display = "closed"
            /\ call.err = ErrCalProp => opened /\ ~props.cal.readable
            /\ call.err = ErrFind => ~opened
            /\ pc = "open" => props.cal.readable

\* the constructor failing on a device whose calibration property it cannot
\* read
C13_Witness ==
    /\ call.op = "open"
    /\ Positions(call.trace, "XOpenDevice") # {}
    /\ ~props.cal.readable
    /\ pc = "failed"
    /\ call.err = ErrCalProp

\* positions of call.trace where orig_axys is assigned
Assignments(t) == Positions(t, "orig_axys = old_axys")

\* C14 as stated: on every path through the constructor and the first
\* detect_axys of a session, the zero-item case included, no property write is
\* issued before orig_axys has been assigned.
C14_NoWriteBeforeOriginal ==
    /\ call.op = "open" => Positions(call.trace, "set_int_prop") = {}
    /\ (call.op = "detect" /\ ~call.redetect) =>
           \A i \in Positions(call.trace, "set_int_prop") :
               \E j \in Assignments(call.trace) : j < i

\* C14: the constructor issues no property write and leaves orig_axys
\* unassigned; detect_axys assigns orig_axys once, as its last step, to the
\* calibration it has arrived at; the one write that can precede that
\* assignment is the corrective write of the zero-item 32-bit integer case,
\* which carries the x and y ranges held on entry; in every other case
\* detect_axys issues no write before (or after) the assignment.
C14_OriginalAssignedLast ==
    /\ ~detected => orig_axys = Unset
    /\ call.op = "open" =>
           /\ Positions(call.trace, "set_int_prop") = {}
           /\ Assignments(call.trace) = {}
    /\ call.op = "detect" =>
           LET w == Positions(call.trace, "set_int_prop")
           IN  /\ Assignments(call.trace) = {Len(call.trace)}
               /\ orig_axys = old_axys
               /\ Cardinality(w) <= 1
               /\ \A i \in w :
                      /\ i < Len(call.trace)
                      /\ call.trace[i].prop = "cal"
                      /\ call.trace[i].vals = FourOf(call.old)
               /\ w # {} <=> call.before.cal = Prop(TRUE, "INTEGER", 32, <<>>)

\* the first detect_axys of a session issuing the corrective write and only
\* then assigning orig_axys
C14_Witness ==
    /\ call.op = "detect"
    /\ ~call.redetect
    /\ \E i \in Positions(call.trace, "set_int_prop") :
       \E j \in Assignments(call.trace) : i < j
    /\ orig_axys = old_axys

\* the calibration read decodes the property c
Decodable(c) ==
    c.readable /\ c.format = 32 /\ c.type = "INTEGER" /\ Len(c.items) > 0

\* the inversion read yields two flags from the property v
InversionConsulted(v) ==
    v.readable /\ v.format = 8 /\ v.type = "INTEGER" /\ Len(v.items) = 2

\* the x and y ranges the inversion fold of the last detect_axys starts from:
\* the decoded ones, or the ranges held on entry when nothing was decoded
FoldBases ==
    IF Decodable(call.before.cal)
    THEN CalDecodings(call.before.cal.items)
    ELSE {FourOf(call.old)}

Folded(min, max, flag) == IF flag # 0 THEN <<max, min>> ELSE <<min, max>>

\* C15: detect_axys takes inversion flags from the inversion property only
\* when its read succeeds with exactly two items of 8-bit integer type; then
\* for each axis on its own the range stored has min and max exchanged,
\* relative to the range decoded from the calibration property, if and only
\* if the flag of that axis is non-zero; in every other case the range is
\* stored as decoded.
C15_InversionFold ==
    call.op = "detect" =>
        LET v == call.before.inv
            fx == IF InversionConsulted(v) THEN v.items[1] ELSE 0
            fy == IF InversionConsulted(v) THEN v.items[2] ELSE 0
        IN  \E b \in FoldBases :
                FourOf(old_axys) =
                    Folded(b[1], b[2], fx) \o Folded(b[3], b[4], fy)

\* detect_axys on a decoded calibration with the x flag 2 and the y flag 0:
\* the x range is stored exchanged, the y range as decoded
C15_Witness ==
    /\ call.op = "detect"
    /\ Decodable(call.before.cal)
    /\ Len(call.before.cal.items) = 4
    /\ call.before.inv = Prop(TRUE, "INTEGER", 8, <<2, 0>>)
    /\ call.before.cal.items[1] # call.before.cal.items[2]
    /\ call.before.cal.items[3] # call.before.cal.items[4]
    /\ old_axys.x = [min |-> call.before.cal.items[2],
                     max |-> call.before.cal.items[1]]
    /\ old_axys.y = [min |-> call.before.cal.items[3],
                     max |-> call.before.cal.items[4]]

\* positions of call.trace where a property is changed on the server
Writes(t) == Positions(t, "XChangeDeviceProperty")

\* C16: a write made with format 8 stores element i as the single byte i of
\* the buffer, the value truncated to 8 bits, and makes no 16-bit store: the
\* first argc bytes are the truncated values and every other byte of the
\* zeroed buffer is still zero.
C16_ByteStoresOnly ==
    (call.op = "set" /\ call.ret
        /\ \A i \in Writes(call.trace) : call.trace[i].format = 8) =>
        call.data = [b \in DOMAIN call.data |->
                        IF b < Len(call.argv) THEN call.argv[b + 1] % 256
                        ELSE 0]

\* C17: a call of xinput_do_set_int_prop that returns false has changed no
\* property; it returns false for fewer than one value, for a name whose atom
\* does not resolve, for format 0 when the probe read fails, and for a format
\* other than 8, 16 and 32 (given or probed); a call that returns true has
\* made one write, with the format given or, for format 0, with the format
\* the probe found on the property.
C17_FailedSetWritesNothing ==
    call.op = "set" =>
        LET p == PropOf(call.name)
            q == call.before[p]
            w == Writes(call.trace)
        IN  /\ ~call.ret => props = call.before /\ w = {}
            /\ ( \/ Len(call.argv) < 1
                 \/ ~call.internOk
                 \/ call.format = 0 /\ ~q.readable
                 \/ call.format = 0 /\ q.format \notin {8, 16, 32}
                 \/ call.format \notin {0, 8, 16, 32} ) => ~call.ret
            /\ call.ret =>
                   /\ Cardinality(w) = 1
                   /\ \A i \in w :
                          /\ call.trace[i].prop = p
                          /\ call.trace[i].format =
                                 IF call.format = 0 THEN q.format
                                 ELSE call.format
                          /\ props[p].format = call.trace[i].format
                   /\ \A o \in DOMAIN props : o # p => props[o] = call.before[o]

\* a call with format 0 on a property the probe cannot read: false is
\* returned and the properties are as before
C17_Witness ==
    /\ call.op = "set"
    /\ haveXiProp
    /\ call.format = 0
    /\ call.internOk
    /\ Len(call.argv) >= 1
    /\ ~call.before[PropOf(call.name)].readable
    /\ ~call.ret
    /\ props = call.before

\* C18: apply and finish_data leave old_axys and orig_axys as they found
\* them, whatever the target and the outcome of the writes; so once
\* detect_axys has run, the two stay equal to what it stored, and every apply
\* writes the swap property exactly when the target's swap flag differs from
\* the detected one, not from the one applied last.
C18_BaselineKept ==
    /\ [](detected => old_axys = orig_axys)
    /\ []((RanApply /\ detected) =>
            (SelectSeq(call.trace, IsSwapSet) # <<>>
                <=> call.new_axys.swap_xy # orig_axys.swap_xy))
    /\ [][call'.op \in {"apply", "finish"} =>
            /\ old_axys' = old_axys
            /\ orig_axys' = orig_axys
            /\ call'.old = old_axys']_vars

\* an apply after detect_axys and an earlier apply that changed the swap
\* property: the target's flag equals the detected one, so no swap write is
\* made although the device holds the other value
C18_Witness ==
    /\ RanApply
    /\ detected
    /\ old_axys = orig_axys
    /\ call.old = old_axys
    /\ call.new_axys.swap_xy = old_axys.swap_xy
    /\ SelectSeq(call.trace, IsSwapSet) = <<>>
    /\ props.swap.readable
    /\ props.swap.items # <<old_axys.swap_xy>>

\* the swap read yields a flag from the property s
SwapConsulted(s) ==
    s.readable /\ s.format = 8 /\ s.type = "INTEGER" /\ Len(s.items) = 1

\* C19: detect_axys writes nothing but the corrective write: every write it
\* asks for is to the calibration property, the swap and inversion properties
\* are as before, and when the calibration read fails, or returns a payload
\* that is not of 32-bit integer type, or returns one or more items, it asks
\* for no write at all and no property changes; a swap property that cannot
\* be read or is not one 8-bit integer item leaves swap_xy as it was.
C19_DetectWritesOnlyCorrective ==
    call.op = "detect" =>
        LET c == call.before.cal
            w == SetEvents(call.trace)
        IN  /\ \A i \in 1..Len(w) : w[i].prop = "cal"
            /\ \A i \in Writes(call.trace) : call.trace[i].prop = "cal"
            /\ props.swap = call.before.swap
            /\ props.inv = call.before.inv
            /\ ( \/ ~c.readable
                 \/ ~(c.format = 32 /\ c.type = "INTEGER")
                 \/ Len(c.items) >= 1 ) =>
                   /\ w = <<>>
                   /\ Writes(call.trace) = {}
                   /\ props = call.before
            /\ ~SwapConsulted(call.before.swap) =>
                   old_axys.swap_xy = call.old.swap_xy

\* detect_axys on a decodable calibration and a swap property of format 32:
\* no write, and the swap flag held before (0) is kept although the item is 1
C19_Witness ==
    /\ call.op = "detect"
    /\ Decodable(call.before.cal)
    /\ call.before.swap = Prop(TRUE, "INTEGER", 32, <<1>>)
    /\ call.old.swap_xy = 0
    /\ old_axys.swap_xy = 0
    /\ SetEvents(call.trace) = <<>>
    /\ props = call.before

\* every write the operation asked for succeeded
AllWritesOk(t) == \A i \in Positions(t, "set_int_prop") : t[i].ok

\* C20: on a device whose calibration property is four 32-bit integers, whose
\* swap property is one 8-bit flag and whose inversion property is two 8-bit
\* flags of any value, when detect_axys is followed by an apply(target) all of
\* whose writes succeed, the next detect_axys on the device as apply left it
\* stores the target's x range, y range and swap flag, and the inversion
\* flags of the device are (0, 0).
C20_RoundTrip ==
    [][(call.op = "apply" /\ AllWritesOk(call.trace) /\ call'.op = "detect") =>
        /\ WellFormed(props)
        /\ props.inv.items = <<0, 0>>
        /\ props'.inv.items = <<0, 0>>
        /\ old_axys'.x = call.new_axys.x
        /\ old_axys'.y = call.new_axys.y
        /\ old_axys'.swap_xy = call.new_axys.swap_xy
        /\ orig_axys' = old_axys']_vars

\* a detect_axys that follows an earlier one and an apply in between: it
\* stores a target that differs in ranges and swap flag from what the earlier
\* detect_axys had stored, on a device whose inversion flags are now (0, 0)
C20_Witness ==
    /\ call.op = "detect"
    /\ call.redetect
    /\ WellFormed(call.before)
    /\ call.before.inv.items = <<0, 0>>
    /\ old_axys \in Targets
    /\ FourOf(call.old) # FourOf(old_axys)
    /\ call.old.swap_xy # old_axys.swap_xy

====
